---------------------------- MODULE Spec2Model ----------------------------
(***************************************************************************)
(* Model of rumd (src/src/main.rs): the warp filter tree filters::rumd()   *)
(* with its three handlers list_umds, info_umd and read_umd, and the Range *)
(* header parser `impl FromStr for Range`.                                 *)
(*                                                                         *)
(* Strings of the program are sequences of one-character strings, so that  *)
(* trimming, splitting, integer parsing, integer formatting and joining    *)
(* are computed character by character, as the code computes them.         *)
(*                                                                         *)
(* A request goes through three steps: it is received, the filter tree     *)
(* answers it (one action per handler, one for a rejection, one for a      *)
(* panic of the task), and the connection goes back to idle.               *)
(***************************************************************************)
EXTENDS Integers, Sequences, FiniteSets

\* pc, req, resp: the exchange in progress.  listBodies and listTrail only
\* observe: the bodies GET / has returned so far, and how far the run has
\* got through "GET /, then another request, then GET / again".
VARIABLES pc, req, resp, listBodies, listTrail

vars == <<pc, req, resp, listBodies, listTrail>>

---------------------------------------------------------------------------
(* Bounds of the input space.                                              *)

\* the most `-`-separated segments a generated Range value has
MaxSegs == 3

\* the most comma-separated range specs a generated multi-range value has
MaxSpecs == 2

---------------------------------------------------------------------------
(* String literals of the program.                                         *)

\* "bytes=", the pattern of trim_start_matches (main.rs:154)
BYTES_EQ == <<"b","y","t","e","s","=">>

\* "bytes", the Accept-Ranges value (main.rs:113, 133)
BYTES == <<"b","y","t","e","s">>

\* "application/octet-stream" (main.rs:114, 134)
OCTET_STREAM == <<"a","p","p","l","i","c","a","t","i","o","n","/","o","c","t","e","t","-","s","t","r","e","a","m">>

\* the Content-Length literal "1646002176" of info_umd (main.rs:115)
CONTENT_LENGTH_LIT == <<"1","6","4","6","0","0","2","1","7","6">>

\* the integer literal 1646002176 formatted into Content-Range (main.rs:137)
UMD_SIZE == 1646002176

\* the listing with its last two entries exchanged
isos_unsorted ==
    << <<"/">>,
       <<"/","C","r","i","s","i","s","%","2","0","C","o","r","e","%","2","0","-","%","2","0","F","i","n","a","l","%","2","0","F","a","n","t","a","s","y","%","2","0","V","I","I","%","2","0","(","U","S","A",")",".","i","s","o">>,
       <<"/","M","o","n","s","t","e","r","%","2","0","H","u","n","t","e","r","%","2","0","F","r","e","e","d","o","m","%","2","0","U","n","i","t","e","%","2","0","(","U","S","A",")","%","2","0","(","E","n",",","F","r",",","D","e",",","E","s",",","I","t",")",".","i","s","o">>,
       <<"/","M","e","t","a","l","_","G","e","a","r","_","S","o","l","i","d","_","P","e","a","c","e","_","W","a","l","k","e","r","_","U","S","A","_","P","S","P","-","p","S","y","P","S","P",".","i","s","o">> >>

\* the vec! of list_umds (main.rs:100-105)
isos ==
    << <<"/">>,
       <<"/","C","r","i","s","i","s","%","2","0","C","o","r","e","%","2","0","-","%","2","0","F","i","n","a","l","%","2","0","F","a","n","t","a","s","y","%","2","0","V","I","I","%","2","0","(","U","S","A",")",".","i","s","o">>,
       <<"/","M","e","t","a","l","_","G","e","a","r","_","S","o","l","i","d","_","P","e","a","c","e","_","W","a","l","k","e","r","_","U","S","A","_","P","S","P","-","p","S","y","P","S","P",".","i","s","o">>,
       <<"/","M","o","n","s","t","e","r","%","2","0","H","u","n","t","e","r","%","2","0","F","r","e","e","d","o","m","%","2","0","U","n","i","t","e","%","2","0","(","U","S","A",")","%","2","0","(","E","n",",","F","r",",","D","e",",","E","s",",","I","t",")",".","i","s","o">> >>

---------------------------------------------------------------------------
(* Library functions the handlers and the parser call, computed as the     *)
(* standard library computes them.                                         *)

DIGITS == <<"0","1","2","3","4","5","6","7","8","9">>

IsDigit(c) == \E i \in 1..10 : DIGITS[i] = c

DigitVal(c) == (CHOOSE i \in 1..10 : DIGITS[i] = c) - 1

StartsWith(s, pat) == Len(pat) <= Len(s) /\ SubSeq(s, 1, Len(pat)) = pat

\* str::trim_start_matches: removes EVERY leading repetition of pat
RECURSIVE trim_start_matches(_, _)
trim_start_matches(s, pat) ==
    IF pat # <<>> /\ StartsWith(s, pat)
    THEN trim_start_matches(SubSeq(s, Len(pat) + 1, Len(s)), pat)
    ELSE s

\* str::split(char).collect(): always at least one segment, "" gives [""]
RECURSIVE split(_, _)
split(s, c) ==
    IF \E i \in 1..Len(s) : s[i] = c
    THEN LET i == CHOOSE k \in 1..Len(s) :
                    s[k] = c /\ \A j \in 1..(k - 1) : s[j] # c
         IN  <<SubSeq(s, 1, i - 1)>> \o split(SubSeq(s, i + 1, Len(s)), c)
    ELSE <<s>>

\* the value of a non-empty run of decimal digits
RECURSIVE DecimalValue(_)
DecimalValue(ds) ==
    IF ds = <<>> THEN 0
    ELSE DecimalValue(SubSeq(ds, 1, Len(ds) - 1)) * 10 + DigitVal(ds[Len(ds)])

\* a parser that reads the leading digits and ignores what follows them, as
\* C's strtol does
parse_i64_leading(src) ==
    LET n == CHOOSE k \in 0..Len(src) :
                 /\ \A i \in 1..k : IsDigit(src[i])
                 /\ k < Len(src) => ~IsDigit(src[k + 1])
    IN  IF n = 0 THEN [ok |-> FALSE, val |-> 0]
        ELSE [ok |-> TRUE, val |-> DecimalValue(SubSeq(src, 1, n))]

\* str::parse::<i64>(): an optional sign, then one or more ASCII digits and
\* nothing else.  (Values stay inside the model checker's integers: the
\* generated digit strings have at most ten digits, so PosOverflow and
\* NegOverflow of a 64-bit value do not arise.)
parse_i64(src) ==
    IF src = <<>> THEN [ok |-> FALSE, val |-> 0]
    ELSE LET signed == src[1] \in {"+", "-"}
             digits == IF signed THEN Tail(src) ELSE src
         IN  IF digits = <<>> \/ \E i \in 1..Len(digits) : ~IsDigit(digits[i])
             THEN [ok |-> FALSE, val |-> 0]
             ELSE [ok |-> TRUE,
                   val |-> IF src[1] = "-" THEN 0 - DecimalValue(digits)
                           ELSE DecimalValue(digits)]

\* the decimal digits of n >= 0
RECURSIVE NatDigits(_)
NatDigits(n) ==
    IF n < 10 THEN <<DIGITS[n + 1]>>
    ELSE NatDigits(n \div 10) \o <<DIGITS[(n % 10) + 1]>>

\* Display of an i64, as format!("{}") prints it
fmt_i64(n) == IF n < 0 THEN <<"-">> \o NatDigits(0 - n) ELSE NatDigits(n)

\* [&str]::join(sep)
RECURSIVE join(_, _)
join(parts, sep) ==
    IF parts = <<>> THEN <<>>
    ELSE IF Len(parts) = 1 THEN parts[1]
    ELSE parts[1] \o sep \o join(Tail(parts), sep)

---------------------------------------------------------------------------
(* impl FromStr for Range (main.rs:150-162).                               *)

\* the outcome of Range::from_str: Ok(Range{start,end}), Err(ParseIntError),
\* or a panic of the indexing range[1]
RangeOk(s, e) == [kind |-> "Ok", start |-> s, end |-> e]
RangeErr == [kind |-> "Err", start |-> 0, end |-> 0]
RangePanic == [kind |-> "Panic", start |-> 0, end |-> 0]

from_str(s) ==
    LET range == split(trim_start_matches(s, BYTES_EQ), "-")
        start_from_str == parse_i64(range[1])
    IN  IF ~start_from_str.ok THEN RangeErr
        ELSE IF Len(range) < 2 THEN RangePanic
        ELSE LET end_from_str == parse_i64(range[2])
             IN  IF ~end_from_str.ok THEN RangeErr
                 ELSE RangeOk(start_from_str.val, end_from_str.val)

---------------------------------------------------------------------------
(* Handlers of mod rumd (main.rs:99-142).                                  *)

NoResp == [kind |-> "none", status |-> 0, headers |-> {}, body |-> <<>>]

\* a task that panicked sends no response
PanicResp == [kind |-> "panic", status |-> 0, headers |-> {}, body |-> <<>>]

Reply(status, headers, body) ==
    [kind |-> "reply", status |-> status, headers |-> headers, body |-> body]

\* GET / : the joined list as a String reply (status 200)
list_umds == Reply(200, {}, join(isos, <<"\n">>))

\* HEAD /<umd_name> : the builder's default status 200, an empty body
info_umd(umd_name) ==
    Reply(200,
          { <<"Accept-Ranges", BYTES>>,
            <<"Content-Type", OCTET_STREAM>>,
            <<"Content-Length", CONTENT_LENGTH_LIT>> },
          <<>>)

\* GET /<umd_name> with a parsed Range : 206, an empty body
read_umd(umd_name, range) ==
    Reply(206,
          { <<"Accept-Ranges", BYTES>>,
            <<"Content-Type", OCTET_STREAM>>,
            <<"Content-Range",
              <<"b","y","t","e","s"," ">> \o fmt_i64(range.start) \o <<"-">>
                  \o fmt_i64(range.end) \o <<"/">> \o fmt_i64(UMD_SIZE)>> },
          <<>>)

---------------------------------------------------------------------------
(* Filters of mod filters (main.rs:61-90).  A filter either replies,       *)
(* rejects with the status its rejection maps to, or panics.               *)

Handled(via, r) == [via |-> via, resp |-> r]
Reject(status) == [via |-> "reject", resp |-> Reply(status, {}, <<>>)]
Panicked == [via |-> "panic", resp |-> PanicResp]

\* warp::path::param::<String>() matches one non-empty segment
HasParam(rq) == rq.path # <<>> /\ rq.path[1] # <<>>

\* warp::path::end().and(warp::get()).and_then(list_umds)
umd_list(rq) ==
    IF rq.path # <<>> THEN Reject(404)
    ELSE IF rq.method # "GET" THEN Reject(405)
    ELSE Handled("list_umds", list_umds)

\* warp::path::param().and(warp::head()).and_then(info_umd)
umd_info(rq) ==
    IF ~HasParam(rq) THEN Reject(404)
    ELSE IF rq.method # "HEAD" THEN Reject(405)
    ELSE Handled("info_umd", info_umd(rq.path[1]))

\* warp::path::param().and(warp::get()).and(header::<Range>("range"))
\*     .and_then(read_umd)
umd_read(rq) ==
    IF ~HasParam(rq) THEN Reject(404)
    ELSE IF rq.method # "GET" THEN Reject(405)
    ELSE IF ~rq.range.present THEN Reject(400)
    ELSE LET range == from_str(rq.range.value)
         IN  CASE range.kind = "Panic" -> Panicked
               [] range.kind = "Err" -> Reject(400)
               [] OTHER -> Handled("read_umd", read_umd(rq.path[1], range))

\* the status of two combined rejections: 404 yields to anything, 405 to
\* anything but 404, otherwise the greater status
Preferred(a, b) ==
    IF b = 404 THEN a
    ELSE IF a = 404 THEN b
    ELSE IF b = 405 THEN a
    ELSE IF a = 405 THEN b
    ELSE IF a < b THEN b ELSE a

\* a.or(b): b is tried only when a rejects; two rejections combine
Or(a, b) ==
    IF a.via # "reject" \/ b.via # "reject" THEN (IF a.via # "reject" THEN a ELSE b)
    ELSE Reject(Preferred(a.resp.status, b.resp.status))

\* umd_list().or(umd_info()).or(umd_read())
rumd(rq) == Or(Or(umd_list(rq), umd_info(rq)), umd_read(rq))

---------------------------------------------------------------------------
(* Requests a client can send.                                             *)

NoReq == [method |-> "", path |-> <<>>, range |-> [present |-> FALSE, value |-> <<>>]]

Methods == {"GET", "HEAD", "POST"}

MISSING_ISO == <<"m","i","s","s","i","n","g",".","i","s","o">>

\* "/", a listed image, an image that is not listed, a two-segment path
Paths == { <<>>, <<Tail(isos[2])>>, <<MISSING_ISO>>, <<Tail(isos[3]), MISSING_ISO>> }

\* segments of a Range value: empty, numbers, a signed number, a
\* non-number, and the size the handlers report
SegTokens ==
    { <<>>, <<"0">>, <<"9","9">>, <<"+","7">>, <<"x">>, CONTENT_LENGTH_LIT }

Prefixes == { <<>>, BYTES_EQ, BYTES_EQ \o BYTES_EQ }

\* prefix, then 1..MaxSegs segments separated by `-`
SegmentedValues ==
    { p \o join(segs, <<"-">>) :
        p \in Prefixes,
        segs \in UNION { [1..n -> SegTokens] : n \in 1..MaxSegs } }

NumTokens == { <<"0">>, <<"9","9">> }

\* one range spec: closed s-e, open s-, suffix -n
RangeSpecs ==
    { s \o <<"-">> \o e : s \in NumTokens, e \in NumTokens }
        \cup { s \o <<"-">> : s \in NumTokens }
        \cup { <<"-">> \o n : n \in NumTokens }

\* bytes= followed by 2..MaxSpecs comma-separated range specs
MultiRangeValues ==
    { BYTES_EQ \o join(specs, <<",">>) :
        specs \in UNION { [1..n -> RangeSpecs] : n \in 2..MaxSpecs } }

RangeHeaders ==
    { [present |-> FALSE, value |-> <<>>] }
        \cup { [present |-> TRUE, value |-> v] :
                 v \in SegmentedValues \cup MultiRangeValues }

Requests == [method : Methods, path : Paths, range : RangeHeaders]

---------------------------------------------------------------------------
(* The server: one connection, one request at a time.                      *)

\* the observer's steps
AfterList ==
    IF listTrail = "" THEN "L" ELSE IF listTrail = "LO" THEN "LOL" ELSE listTrail

AfterOther == IF listTrail = "L" THEN "LO" ELSE listTrail

Init ==
    /\ pc = "idle"
    /\ req = NoReq
    /\ resp = NoResp
    /\ listBodies = {}
    /\ listTrail = ""

\* a request arrives
Receive ==
    /\ pc = "idle"
    /\ \E rq \in Requests : req' = rq
    /\ pc' = "received"
    /\ UNCHANGED <<resp, listBodies, listTrail>>

\* GET / is answered by list_umds
ListUmds ==
    /\ pc = "received"
    /\ rumd(req).via = "list_umds"
    /\ resp' = rumd(req).resp
    /\ listBodies' = listBodies \cup {rumd(req).resp.body}
    /\ listTrail' = AfterList
    /\ pc' = "replied"
    /\ UNCHANGED req

\* HEAD /<umd_name> is answered by info_umd
InfoUmd ==
    /\ pc = "received"
    /\ rumd(req).via = "info_umd"
    /\ resp' = rumd(req).resp
    /\ listTrail' = AfterOther
    /\ pc' = "replied"
    /\ UNCHANGED <<req, listBodies>>

\* GET /<umd_name> with a Range that parses is answered by read_umd
ReadUmd ==
    /\ pc = "received"
    /\ rumd(req).via = "read_umd"
    /\ resp' = rumd(req).resp
    /\ listTrail' = AfterOther
    /\ pc' = "replied"
    /\ UNCHANGED <<req, listBodies>>

\* every filter rejected: the combined rejection becomes the response
Rejected ==
    /\ pc = "received"
    /\ rumd(req).via = "reject"
    /\ resp' = rumd(req).resp
    /\ listTrail' = AfterOther
    /\ pc' = "replied"
    /\ UNCHANGED <<req, listBodies>>

\* Range::from_str panicked: the task dies, no response is sent
TaskPanic ==
    /\ pc = "received"
    /\ rumd(req).via = "panic"
    /\ resp' = PanicResp
    /\ listTrail' = AfterOther
    /\ pc' = "replied"
    /\ UNCHANGED <<req, listBodies>>

\* the exchange is over; the server waits for the next request
Close ==
    /\ pc = "replied"
    /\ pc' = "idle"
    /\ req' = NoReq
    /\ resp' = NoResp
    /\ UNCHANGED <<listBodies, listTrail>>

Next ==
    \/ Receive
    \/ ListUmds
    \/ InfoUmd
    \/ ReadUmd
    \/ Rejected
    \/ TaskPanic
    \/ Close

Spec == Init /\ [][Next]_vars

---------------------------------------------------------------------------
(* Vocabulary of the properties.                                           *)

\* a name is catalogued when the listing shows it as /name
Catalogued(name) == \E i \in 1..Len(isos) : isos[i] = <<"/">> \o name

\* the exchange in progress is method /<name> for one path segment, answered
Answered(method) == pc = "replied" /\ req.method = method /\ Len(req.path) = 1

\* the exchange in progress reached the Range header filter of umd_read, so
\* Range::from_str ran on the header value
RangeParsed ==
    pc = "replied" /\ req.method = "GET" /\ HasParam(req) /\ req.range.present

HasHeader(r, name, value) == <<name, value>> \in r.headers

ContentRange(start, end, total) ==
    <<"b","y","t","e","s"," ">> \o fmt_i64(start) \o <<"-">> \o fmt_i64(end)
        \o <<"/">> \o fmt_i64(total)

ContentRangeUnsatisfiable(total) ==
    <<"b","y","t","e","s"," ","*","/">> \o fmt_i64(total)

\* offsets the properties quantify over: the first byte, small offsets, the
\* last byte, the size
Offsets == {0, 7, 99, UMD_SIZE - 1, UMD_SIZE}

ClosedForm(start, end) == BYTES_EQ \o fmt_i64(start) \o <<"-">> \o fmt_i64(end)
OpenForm(start) == BYTES_EQ \o fmt_i64(start) \o <<"-">>
SuffixForm(n) == BYTES_EQ \o <<"-">> \o fmt_i64(n)

\* a run of one or more digits
IsNumeral(s) == s # <<>> /\ \A i \in 1..Len(s) : IsDigit(s[i])

\* the ASCII characters the listed names use, in byte order
BYTE_ORDER ==
    <<"%","(",")",",","-",".","/",
      "0","1","2","3","4","5","6","7","8","9",
      "A","B","C","D","E","F","G","H","I","J","K","L","M","N","O","P","Q","R",
      "S","T","U","V","W","X","Y","Z","_",
      "a","b","c","d","e","f","g","h","i","j","k","l","m","n","o","p","q","r",
      "s","t","u","v","w","x","y","z">>

ByteOf(c) == CHOOSE i \in 1..Len(BYTE_ORDER) : BYTE_ORDER[i] = c

\* a < b, byte-wise lexicographic
RECURSIVE StrLess(_, _)
StrLess(a, b) ==
    IF b = <<>> THEN FALSE
    ELSE IF a = <<>> THEN TRUE
    ELSE IF a[1] # b[1] THEN ByteOf(a[1]) < ByteOf(b[1])
    ELSE StrLess(Tail(a), Tail(b))

\* bytes= followed by two or more comma-separated specs, each closed (s-e),
\* open (s-) or suffix (-n)
IsRangeSpec(p) ==
    LET segs == split(p, "-")
    IN  /\ Len(segs) = 2
        /\ segs[1] = <<>> \/ IsNumeral(segs[1])
        /\ segs[2] = <<>> \/ IsNumeral(segs[2])
        /\ segs[1] # <<>> \/ segs[2] # <<>>

IsMultiRange(v) ==
    /\ StartsWith(v, BYTES_EQ)
    /\ LET specs == split(SubSeq(v, Len(BYTES_EQ) + 1, Len(v)), ",")
       IN  Len(specs) >= 2 /\ \A i \in 1..Len(specs) : IsRangeSpec(specs[i])

---------------------------------------------------------------------------
(* Properties.                                                             *)

\* C1: for a catalogued name and Range bytes=start-end with
\* 0 <= start <= end < total, GET /name answers 206 with
\* Content-Range: bytes start-end/total, Accept-Ranges: bytes,
\* Content-Type: application/octet-stream and a body of end-start+1 bytes.
C1_RangedReadReturnsSlice ==
    \A start \in Offsets, end \in Offsets :
        ( /\ Answered("GET") /\ Catalogued(req.path[1])
          /\ 0 <= start /\ start <= end /\ end < UMD_SIZE
          /\ req.range.present /\ req.range.value = ClosedForm(start, end) )
        => /\ resp.status = 206
           /\ HasHeader(resp, "Content-Range", ContentRange(start, end, UMD_SIZE))
           /\ HasHeader(resp, "Accept-Ranges", BYTES)
           /\ HasHeader(resp, "Content-Type", OCTET_STREAM)
           /\ Len(resp.body) = end - start + 1

\* C2: for a catalogued name and a Range whose start >= total, GET /name
\* answers 416 with Content-Range: bytes */total, never 206.
C2_StartPastEndIs416 ==
    \A start \in Offsets, end \in Offsets :
        ( /\ Answered("GET") /\ Catalogued(req.path[1])
          /\ start >= UMD_SIZE
          /\ req.range.present /\ req.range.value = ClosedForm(start, end) )
        => /\ resp.status = 416
           /\ HasHeader(resp, "Content-Range", ContentRangeUnsatisfiable(UMD_SIZE))

\* C3: HEAD /name answers 200 with Content-Length = the size, Accept-Ranges:
\* bytes and Content-Type: application/octet-stream exactly when the name is
\* catalogued; for every other name it answers 404.
C3_HeadHitOrMiss ==
    Answered("HEAD") =>
        IF Catalogued(req.path[1])
        THEN /\ resp.status = 200
             /\ HasHeader(resp, "Content-Length", fmt_i64(UMD_SIZE))
             /\ HasHeader(resp, "Accept-Ranges", BYTES)
             /\ HasHeader(resp, "Content-Type", OCTET_STREAM)
        ELSE resp.status = 404

\* C4: every GET / answers 200 with the catalog names one per line, each
\* beginning with /, none twice, in ascending order; and every GET / so far,
\* whatever was served in between, returned the same body.
C4_ListSortedUniqueStable ==
    /\ (pc = "replied" /\ req.method = "GET" /\ req.path = <<>>) =>
          /\ resp.status = 200
          /\ LET lines == split(resp.body, "\n")
             IN  /\ lines = isos
                 /\ \A i \in 1..Len(lines) : lines[i] # <<>> /\ lines[i][1] = "/"
                 /\ \A i, j \in 1..Len(lines) : i < j => StrLess(lines[i], lines[j])
          /\ listBodies = {resp.body}
    /\ Cardinality(listBodies) <= 1

\* C4 witness: a second GET / answered after another request was served
C4_Witness ==
    /\ pc = "replied" /\ req.method = "GET" /\ req.path = <<>>
    /\ listTrail = "LOL"
    /\ resp.status = 200

\* C5: a Range whose start or end is non-numeric or negative, or whose start
\* is greater than its end, is rejected: GET /name answers 400, never 206.
C5_MalformedIs400 ==
    \A s \in SegTokens \ {<<>>}, e \in SegTokens \ {<<>>}, ss \in {<<>>, <<"-">>}, es \in {<<>>, <<"-">>} :
        ( /\ Answered("GET") /\ Catalogued(req.path[1])
          /\ req.range.present
          /\ req.range.value = BYTES_EQ \o ss \o s \o <<"-">> \o es \o e
          /\ \/ ~IsNumeral(s) \/ ~IsNumeral(e)
             \/ ss = <<"-">> \/ es = <<"-">>
             \/ DecimalValue(s) > DecimalValue(e) )
        => resp.status = 400

\* C6: the parser accepts the three single-range forms and normalises them
\* against the size: s-e yields [s, e]; s- with s < total yields
\* [s, total-1]; -N yields [max(0, total-N), total-1].
C6_ThreeFormsNormalised ==
    \A s \in Offsets, e \in Offsets :
        (Answered("GET") /\ Catalogued(req.path[1]) /\ req.range.present) =>
            /\ (req.range.value = ClosedForm(s, e) /\ s <= e /\ e < UMD_SIZE) =>
                  /\ from_str(req.range.value).kind = "Ok"
                  /\ HasHeader(resp, "Content-Range", ContentRange(s, e, UMD_SIZE))
            /\ (req.range.value = OpenForm(s) /\ s < UMD_SIZE) =>
                  /\ from_str(req.range.value).kind = "Ok"
                  /\ HasHeader(resp, "Content-Range",
                               ContentRange(s, UMD_SIZE - 1, UMD_SIZE))
            /\ (req.range.value = SuffixForm(e) /\ e > 0) =>
                  /\ from_str(req.range.value).kind = "Ok"
                  /\ HasHeader(resp, "Content-Range",
                               ContentRange(IF e >= UMD_SIZE THEN 0 ELSE UMD_SIZE - e,
                                            UMD_SIZE - 1, UMD_SIZE))

\* C7: for bytes=start-end with start < total and end >= total the request
\* does not fail: the 206 carries Content-Range: bytes start-(total-1)/total,
\* and the end reported never reaches total.
C7_EndClampedToLastByte ==
    \A start \in Offsets, end \in Offsets :
        ( /\ Answered("GET") /\ Catalogued(req.path[1])
          /\ start < UMD_SIZE /\ end >= UMD_SIZE
          /\ req.range.present /\ req.range.value = ClosedForm(start, end) )
        => /\ resp.status = 206
           /\ HasHeader(resp, "Content-Range",
                        ContentRange(start, UMD_SIZE - 1, UMD_SIZE))

\* C8: a multi-range Range value (two or more comma-separated specs after
\* bytes=) is rejected: parsing returns an error, GET /name answers 400, and
\* no 206 is produced for it.
C8_MultiRangeRejected ==
    (pc = "replied" /\ req.range.present /\ IsMultiRange(req.range.value)) =>
        /\ from_str(req.range.value).kind = "Err"
        /\ resp.status # 206
        /\ (req.method = "GET" /\ HasParam(req)) => resp.status = 400

\* C8 witness: GET /name with a two-spec Range was answered 400
C8_Witness ==
    /\ Answered("GET") /\ Catalogued(req.path[1])
    /\ req.range.present /\ IsMultiRange(req.range.value)
    /\ resp.kind = "reply" /\ resp.status = 400

\* C9: Range::from_str is total: for every header value it returns Ok or
\* Err, and the task never aborts on a missing segment of the split.
C9_FromStrTotal ==
    RangeParsed =>
        /\ from_str(req.range.value).kind \in {"Ok", "Err"}
        /\ resp.kind = "reply"

\* C10: from_str returns Ok only for bytes= (once), start, one -, end; the
\* accepted start and end are the decimal values of those two segments.
C10_OkOnlyForExactShape ==
    (RangeParsed /\ from_str(req.range.value).kind = "Ok") =>
        /\ resp.status = 206
        /\ StartsWith(req.range.value, BYTES_EQ)
        /\ LET rest == SubSeq(req.range.value, Len(BYTES_EQ) + 1, Len(req.range.value))
               segs == split(rest, "-")
           IN  /\ ~StartsWith(rest, BYTES_EQ)
               /\ Len(segs) = 2
               /\ parse_i64(segs[1]).ok /\ parse_i64(segs[2]).ok
               /\ from_str(req.range.value).start = parse_i64(segs[1]).val
               /\ from_str(req.range.value).end = parse_i64(segs[2]).val

=============================================================================
